---- MODULE Spec2Model ----
(***************************************************************************)
(* Model of scripts/plan2scene/texture_prop/gnn_texture_prop.py: the       *)
(* command-line script that loads houses, runs process() (GNN texture      *)
(* propagation followed by texture synthesis) and saves the houses.        *)
(*                                                                         *)
(* The script is one sequential thread of control.  pc is its position;    *)
(* every statement that matters to house state, to the file system or to   *)
(* the order of calls is one action.  trace is the history of the calls    *)
(* made to the collaborators (load, clear_predictions, predict,            *)
(* update_embeddings, fill_textures, save).                                *)
(***************************************************************************)
EXTENDS Naturals, Integers, Sequences, FiniteSets, TLC

VARIABLES
    pc,                         \* position of the script
    keep_existing_predictions,  \* args.keep_existing_predictions
    use_train_graph_generator,  \* args.train_graph_generator
    use_val_graph_generator,    \* args.val_graph_generator
    input_path,                 \* args.input_path, a sequence of path components
    output_path,                \* args.output_path
    bs,                         \* conf.texture_prop.train.bs
    house_keys,                 \* conf.get_data_list(split)
    disk,                       \* per-house crops/embeddings stored under input_path
    fs_dirs,                    \* directories that exist on the file system
    houses,                     \* the houses dictionary, mutated in place
    nt_graph_generator,         \* graph generator selected by process()
    val_nt_dataloader,          \* sequence of batches, each a sequence of house keys
    i,                          \* index of the current batch (enumerate)
    output,                     \* prediction of the current batch
    trace,                      \* history of collaborator calls
    failure                     \* the error that aborted the run, or "none"

vars == <<pc, keep_existing_predictions, use_train_graph_generator,
          use_val_graph_generator, input_path, output_path, bs, house_keys,
          disk, fs_dirs, houses, nt_graph_generator, val_nt_dataloader, i,
          output, trace, failure>>

argv == <<keep_existing_predictions, use_train_graph_generator,
          use_val_graph_generator, input_path, output_path, bs, house_keys,
          disk>>

(***************************************************************************)
(* Bounds of the model.                                                    *)
(***************************************************************************)
MaxHouses == 2      \* at most this many house keys in the data list
MaxBs == 2          \* batch sizes 1..MaxBs

(***************************************************************************)
(* Values.                                                                 *)
(***************************************************************************)
\* Surfaces of a house (conf.surfaces).
Surfaces == {"floor", "wall"}

\* An embedding carries its provenance: none, read from the input root, or
\* written by propagation from the prediction of batch `batch`.
NoEmb == [src |-> "none", batch |-> -1]
InputEmb == [src |-> "input", batch |-> -1]
PropEmb(b) == [src |-> "prop", batch |-> b]

\* A crop is absent, an observed crop read from the input root, or a crop
\* synthesized with ImageSource.GNN_PROP.
NoCrop == "none"
InputCrop == "input"
GnnPropCrop == "GNN_PROP"

\* What a surface can hold on disk before the run: nothing, an embedding, or
\* an embedding and its crop (the earlier stage stores a crop only for a
\* surface it has an embedding for).
SurfaceStates == {[emb |-> NoEmb, crop |-> NoCrop],
                  [emb |-> InputEmb, crop |-> NoCrop],
                  [emb |-> InputEmb, crop |-> InputCrop]}

EmptySurface == [emb |-> NoEmb, crop |-> NoCrop]

\* House keys "h1", "h2", ...
HouseKey(k) == "h" \o ToString(k)

\* os.path.join on paths kept as sequences of components.
Join(root, rest) == root \o rest

CropsDir(root, house_key) == Join(root, <<"texture_crops", house_key>>)
EmbeddingsFile(root, house_key) ==
    Join(root, <<"surface_texture_embeddings", house_key \o ".json">>)

InputRoot == <<"data", "vgg_crop_select">>
OutputRoots == {<<"data", "gnn_prop">>, InputRoot, Join(InputRoot, <<"gnn_prop">>)}

NoGenerator == [kind |-> "none", include_target |-> FALSE]
NoOutput == [batch |-> -1]

Event(op, arg) == [op |-> op, arg |-> arg]

Range(s) == {s[j] : j \in 1..Len(s)}

(***************************************************************************)
(* Initial state: the command line, the configuration and the input root.  *)
(***************************************************************************)
Init ==
    /\ pc = "makedirs"
    /\ keep_existing_predictions \in BOOLEAN
    /\ use_train_graph_generator \in BOOLEAN
    /\ use_val_graph_generator \in BOOLEAN
    /\ input_path = InputRoot
    /\ output_path \in OutputRoots
    /\ bs \in 1..MaxBs
    /\ \E n \in 0..MaxHouses : house_keys = [k \in 1..n |-> HouseKey(k)]
    /\ disk \in [Range(house_keys) -> [Surfaces -> SurfaceStates]]
    /\ fs_dirs = {input_path, Join(input_path, <<"texture_crops">>),
                  Join(input_path, <<"surface_texture_embeddings">>)}
    /\ houses = <<>>
    /\ nt_graph_generator = NoGenerator
    /\ val_nt_dataloader = <<>>
    /\ i = 0
    /\ output = NoOutput
    /\ trace = <<>>
    /\ failure = "none"

\* An unhandled exception: the interpreter terminates the script.
Raise(reason) ==
    /\ pc' = "failed"
    /\ failure' = reason

Min(a, b) == IF a <= b THEN a ELSE b

(***************************************************************************)
(* Collaborators.                                                          *)
(***************************************************************************)
\* parse_houses: one house per key, no crops or embeddings loaded yet.
parse_houses(keys) == [k \in Range(keys) |-> [s \in Surfaces |-> EmptySurface]]

\* load_house_crops and load_house_texture_embeddings: the house takes the
\* crops and embeddings stored for it under the given root.
load_house(h, house_key, stored) == [h EXCEPT ![house_key] = stored[house_key]]

\* Mutant: the train-time generator is built with its targets included.
GraphGeneratorFor_TrainWithTarget(use_train, use_val) ==
    IF use_train THEN [kind |-> "train", include_target |-> TRUE]
    ELSE IF use_val THEN [kind |-> "val", include_target |-> FALSE]
    ELSE [kind |-> "inference", include_target |-> FALSE]

\* Lines 44-49: the graph generator for the given flags.
GraphGeneratorFor(use_train, use_val) ==
    IF use_train THEN [kind |-> "train", include_target |-> FALSE]
    ELSE IF use_val THEN [kind |-> "val", include_target |-> FALSE]
    ELSE [kind |-> "inference", include_target |-> FALSE]

\* HouseDataset + DataLoader(batch_size): one graph per house, in dictionary
\* order, cut into consecutive batches of batch_size (the last may be short).
Batches(keys, batch_size) ==
    [j \in 1..((Len(keys) + batch_size - 1) \div batch_size) |->
        SubSeq(keys, (j - 1) * batch_size + 1, Min(j * batch_size, Len(keys)))]

\* clear_predictions: every surface of every house loses its embedding.
clear_predictions(h) ==
    [k \in DOMAIN h |-> [s \in Surfaces |-> [h[k][s] EXCEPT !.emb = NoEmb]]]

\* tp_predictor.predict: the prediction for batch number b.
predict(b) == [batch |-> b]

\* update_embeddings: merge the prediction into the surfaces of the batch's
\* houses; with keep, a surface that has an embedding keeps it.
update_embeddings(h, batch, out, keep) ==
    [k \in DOMAIN h |->
        IF k \in Range(batch)
        THEN [s \in Surfaces |->
                IF keep /\ h[k][s].emb # NoEmb
                THEN h[k][s]
                ELSE [h[k][s] EXCEPT !.emb = PropEmb(out.batch)]]
        ELSE h[k]]

\* fill_textures: synthesize a crop for every surface that has an embedding,
\* skipping surfaces that already have a crop when skip_existing_textures.
fill_textures(h, skip_existing_textures) ==
    [k \in DOMAIN h |->
        [s \in Surfaces |->
            IF h[k][s].emb = NoEmb THEN h[k][s]
            ELSE IF skip_existing_textures /\ h[k][s].crop # NoCrop THEN h[k][s]
            ELSE [h[k][s] EXCEPT !.crop = GnnPropCrop]]]

(***************************************************************************)
(* The script, __main__ (lines 99-131).                                    *)
(***************************************************************************)
\* Lines 99-106: create the output directories that do not exist yet.
MakeOutputDirs ==
    /\ pc = "makedirs"
    /\ LET wanted == {output_path,
                      Join(output_path, <<"surface_texture_embeddings">>),
                      Join(output_path, <<"texture_crops">>)}
       IN /\ fs_dirs' = fs_dirs \cup wanted
          /\ trace' = Append(trace, Event("makedirs", wanted \ fs_dirs))
    /\ pc' = "parse_houses"
    /\ UNCHANGED <<argv, houses, nt_graph_generator, val_nt_dataloader, i, output, failure>>

\* Lines 108-114: parse the houses of the split; malformed data raises.
ParseHouses ==
    /\ pc = "parse_houses"
    /\ \/ /\ houses' = parse_houses(house_keys)
          /\ pc' = "load"
          /\ i' = 0
          /\ UNCHANGED failure
       \/ /\ Raise("malformed_house")
          /\ UNCHANGED <<houses, i>>
    /\ UNCHANGED <<argv, fs_dirs, nt_graph_generator, val_nt_dataloader, output, trace>>

\* Lines 115-120: one iteration of the loading loop.
LoadHouse ==
    /\ pc = "load"
    /\ i < Len(house_keys)
    /\ LET house_key == house_keys[i + 1]
       IN \/ /\ houses' = load_house(houses, house_key, disk)
             /\ trace' = trace \o
                    <<Event("load_house_crops", CropsDir(input_path, house_key)),
                      Event("load_house_texture_embeddings",
                            EmbeddingsFile(input_path, house_key))>>
             /\ i' = i + 1
             /\ UNCHANGED <<pc, failure>>
          \/ /\ Raise("malformed_house")
             /\ UNCHANGED <<houses, trace, i>>
    /\ UNCHANGED <<argv, fs_dirs, nt_graph_generator, val_nt_dataloader, output>>

\* Line 122: the loading loop is over, process() is called.
CallProcess ==
    /\ pc = "load"
    /\ i >= Len(house_keys)
    /\ pc' = "tg_predictor"
    /\ trace' = Append(trace, Event("process", DOMAIN houses))
    /\ UNCHANGED <<argv, fs_dirs, houses, nt_graph_generator, val_nt_dataloader, i,
                   output, failure>>

(***************************************************************************)
(* process() (lines 32-65).                                                *)
(***************************************************************************)
\* Lines 33-36: texture synthesis predictor and its checkpoint.
LoadTgCheckpoint ==
    /\ pc = "tg_predictor"
    /\ \/ /\ pc' = "tp_predictor"
          /\ UNCHANGED failure
       \/ Raise("tg_checkpoint")
    /\ UNCHANGED <<argv, fs_dirs, houses, nt_graph_generator, val_nt_dataloader, i,
                   output, trace>>

\* Mutant: a failed checkpoint load is swallowed and the run goes on.
LoadTpCheckpoint_Swallowed ==
    /\ pc = "tp_predictor"
    /\ pc' = "assert"
    /\ \/ UNCHANGED failure
       \/ failure' = "tp_checkpoint"
    /\ UNCHANGED <<argv, fs_dirs, houses, nt_graph_generator, val_nt_dataloader, i,
                   output, trace>>

\* Lines 38-39: texture propagation predictor and its checkpoint.
LoadTpCheckpoint ==
    /\ pc = "tp_predictor"
    /\ \/ /\ pc' = "assert"
          /\ UNCHANGED failure
       \/ Raise("tp_checkpoint")
    /\ UNCHANGED <<argv, fs_dirs, houses, nt_graph_generator, val_nt_dataloader, i,
                   output, trace>>

\* Mutant: the assertion is missing.
AssertFlags_Missing ==
    /\ pc = "assert"
    /\ pc' = "select"
    /\ UNCHANGED <<argv, fs_dirs, houses, nt_graph_generator, val_nt_dataloader, i,
                   output, trace, failure>>

\* Line 41: assert not (use_train_graph_generator and use_val_graph_generator).
AssertFlags ==
    /\ pc = "assert"
    /\ IF use_train_graph_generator /\ use_val_graph_generator
       THEN Raise("assertion")
       ELSE pc' = "select" /\ UNCHANGED failure
    /\ UNCHANGED <<argv, fs_dirs, houses, nt_graph_generator, val_nt_dataloader, i,
                   output, trace>>

\* Lines 44-49: select the graph generator.
SelectGraphGenerator ==
    /\ pc = "select"
    /\ nt_graph_generator' =
           GraphGeneratorFor(use_train_graph_generator, use_val_graph_generator)
    /\ pc' = "dataset"
    /\ UNCHANGED <<argv, fs_dirs, houses, val_nt_dataloader, i, output, trace, failure>>

\* Lines 51-52: dataset and data loader over the houses.
BuildDataLoader ==
    /\ pc = "dataset"
    /\ val_nt_dataloader' = Batches(house_keys, bs)
    /\ pc' = "keep_check"
    /\ UNCHANGED <<argv, fs_dirs, houses, nt_graph_generator, i, output, trace, failure>>

\* Mutant: the predictions are never cleared.
ClearUnlessKept_Never ==
    /\ pc = "keep_check"
    /\ pc' = "loop"
    /\ i' = 0
    /\ UNCHANGED <<argv, fs_dirs, houses, nt_graph_generator, val_nt_dataloader, output,
                   trace, failure>>

\* Mutant: the predictions are cleared whatever the flag says.
ClearUnlessKept_Always ==
    /\ pc = "keep_check"
    /\ houses' = clear_predictions(houses)
    /\ trace' = Append(trace, Event("clear_predictions", DOMAIN houses))
    /\ pc' = "loop"
    /\ i' = 0
    /\ UNCHANGED <<argv, fs_dirs, nt_graph_generator, val_nt_dataloader, output, failure>>

\* Lines 54-55: clear the predictions unless they are to be kept.
ClearUnlessKept ==
    /\ pc = "keep_check"
    /\ IF ~keep_existing_predictions
       THEN /\ houses' = clear_predictions(houses)
            /\ trace' = Append(trace, Event("clear_predictions", DOMAIN houses))
       ELSE UNCHANGED <<houses, trace>>
    /\ pc' = "loop"
    /\ i' = 0
    /\ UNCHANGED <<argv, fs_dirs, nt_graph_generator, val_nt_dataloader, output, failure>>

\* Lines 58-60: the next batch is taken and predicted.
Predict ==
    /\ pc = "loop"
    /\ i < Len(val_nt_dataloader)
    /\ output' = predict(i)
    /\ trace' = Append(trace, Event("predict", i))
    /\ pc' = "update"
    /\ UNCHANGED <<argv, fs_dirs, houses, nt_graph_generator, val_nt_dataloader, i, failure>>

\* Mutant: the keep flag is not passed on (False is passed instead).
UpdateEmbeddings_IgnoreKeep ==
    /\ pc = "update"
    /\ houses' = update_embeddings(houses, val_nt_dataloader[i + 1], output, FALSE)
    /\ trace' = Append(trace, Event("update_embeddings", output.batch))
    /\ i' = i + 1
    /\ pc' = "loop"
    /\ UNCHANGED <<argv, fs_dirs, nt_graph_generator, val_nt_dataloader, output, failure>>

\* Mutant: every prediction is merged into the houses of the first batch.
UpdateEmbeddings_FirstBatch ==
    /\ pc = "update"
    /\ houses' = update_embeddings(houses, val_nt_dataloader[1], output,
                                   keep_existing_predictions)
    /\ trace' = Append(trace, Event("update_embeddings", output.batch))
    /\ i' = i + 1
    /\ pc' = "loop"
    /\ UNCHANGED <<argv, fs_dirs, nt_graph_generator, val_nt_dataloader, output, failure>>

\* Lines 61-62: the prediction is merged into the houses.
UpdateEmbeddings ==
    /\ pc = "update"
    /\ houses' = update_embeddings(houses, val_nt_dataloader[i + 1], output,
                                   keep_existing_predictions)
    /\ trace' = Append(trace, Event("update_embeddings", output.batch))
    /\ i' = i + 1
    /\ pc' = "loop"
    /\ UNCHANGED <<argv, fs_dirs, nt_graph_generator, val_nt_dataloader, output, failure>>

\* Mutant: synthesis runs inside the loop, in place of the last batch.
FillTextures_BeforeLastBatch ==
    /\ pc = "loop"
    /\ i + 1 >= Len(val_nt_dataloader)
    /\ houses' = fill_textures(houses, keep_existing_predictions)
    /\ trace' = Append(trace, Event("fill_textures",
                       [houses |-> DOMAIN houses,
                        skip_existing_textures |-> keep_existing_predictions]))
    /\ pc' = "save"
    /\ i' = 0
    /\ UNCHANGED <<argv, fs_dirs, nt_graph_generator, val_nt_dataloader, output, failure>>

\* Mutant: process() returns without synthesizing the textures.
FillTextures_Missing ==
    /\ pc = "loop"
    /\ i >= Len(val_nt_dataloader)
    /\ pc' = "save"
    /\ i' = 0
    /\ UNCHANGED <<argv, fs_dirs, houses, nt_graph_generator, val_nt_dataloader, output,
                   trace, failure>>

\* Lines 64-65: the loop is over; synthesize the textures and return.
FillTextures ==
    /\ pc = "loop"
    /\ i >= Len(val_nt_dataloader)
    /\ houses' = fill_textures(houses, keep_existing_predictions)
    /\ trace' = Append(trace, Event("fill_textures",
                       [houses |-> DOMAIN houses,
                        skip_existing_textures |-> keep_existing_predictions]))
    /\ pc' = "save"
    /\ i' = 0
    /\ UNCHANGED <<argv, fs_dirs, nt_graph_generator, val_nt_dataloader, output, failure>>

(***************************************************************************)
(* Back in __main__ (lines 126-131).                                       *)
(***************************************************************************)
\* Mutant: the houses are saved back under the input root.
SaveHouse_ToInputPath ==
    /\ pc = "save"
    /\ i < Len(house_keys)
    /\ LET house_key == house_keys[i + 1]
       IN trace' = trace \o
              <<Event("save_house_crops", CropsDir(input_path, house_key)),
                Event("save_house_texture_embeddings",
                      EmbeddingsFile(input_path, house_key))>>
    /\ i' = i + 1
    /\ UNCHANGED <<pc, argv, fs_dirs, houses, nt_graph_generator, val_nt_dataloader,
                   output, failure>>

\* Lines 126-131: one iteration of the saving loop.
SaveHouse ==
    /\ pc = "save"
    /\ i < Len(house_keys)
    /\ LET house_key == house_keys[i + 1]
       IN trace' = trace \o
              <<Event("save_house_crops", CropsDir(output_path, house_key)),
                Event("save_house_texture_embeddings",
                      EmbeddingsFile(output_path, house_key))>>
    /\ i' = i + 1
    /\ UNCHANGED <<pc, argv, fs_dirs, houses, nt_graph_generator, val_nt_dataloader,
                   output, failure>>

\* The saving loop is over: the script ends.
Finish ==
    /\ pc = "save"
    /\ i >= Len(house_keys)
    /\ pc' = "done"
    /\ UNCHANGED <<argv, fs_dirs, houses, nt_graph_generator, val_nt_dataloader, i,
                   output, trace, failure>>

Next ==
    \/ MakeOutputDirs
    \/ ParseHouses
    \/ LoadHouse
    \/ CallProcess
    \/ LoadTgCheckpoint
    \/ LoadTpCheckpoint
    \/ AssertFlags
    \/ SelectGraphGenerator
    \/ BuildDataLoader
    \/ ClearUnlessKept
    \/ Predict
    \/ UpdateEmbeddings
    \/ FillTextures
    \/ SaveHouse
    \/ Finish

Spec == Init /\ [][Next]_vars

\* The interpreter keeps executing the script until it ends or aborts.
FairSpec == Spec /\ WF_vars(Next)

(***************************************************************************)
(* Vocabulary of the properties.                                           *)
(***************************************************************************)
Called(op) == \E j \in 1..Len(trace) : trace[j].op = op
Count(op) == Cardinality({j \in 1..Len(trace) : trace[j].op = op})
\* Position of the first call of op (0 when it was never called).
First(op) == IF Called(op)
             THEN CHOOSE j \in 1..Len(trace) :
                     /\ trace[j].op = op
                     /\ \A l \in 1..(j - 1) : trace[l].op # op
             ELSE 0

IsPropagation(e) == e.op \in {"predict", "update_embeddings"}
IsLoad(e) == e.op \in {"load_house_crops", "load_house_texture_embeddings"}
IsSave(e) == e.op \in {"save_house_crops", "save_house_texture_embeddings"}

IsPrefix(s, t) == Len(s) <= Len(t) /\ SubSeq(t, 1, Len(s)) = s

\* Path p is directory root or lies under it.
Under(p, root) == IsPrefix(root, p)

BothFlags == use_train_graph_generator /\ use_val_graph_generator
DefaultFlags == /\ ~use_train_graph_generator
                /\ ~use_val_graph_generator
                /\ ~keep_existing_predictions

InProcess == pc \in {"tg_predictor", "tp_predictor", "assert", "select", "dataset",
                     "keep_check", "loop", "update"}
PastAssert == pc \in {"select", "dataset", "keep_check", "loop", "update", "save", "done"}
Returned == pc \in {"save", "done"}
AtPredict == pc = "loop" /\ i < Len(val_nt_dataloader)
AtUpdate == pc = "update"

HouseSurfaces == {<<k, s>> : k \in DOMAIN houses, s \in Surfaces}

\* The propagation calls a pass over n batches makes, in order.
PropagationCalls(n) ==
    [j \in 1..(2 * n) |->
        IF j % 2 = 1 THEN Event("predict", (j - 1) \div 2)
        ELSE Event("update_embeddings", (j - 2) \div 2)]

\* The load (save) calls for the houses, in dictionary order, under root.
LoadCalls(root) ==
    [j \in 1..(2 * Len(house_keys)) |->
        IF j % 2 = 1 THEN Event("load_house_crops", CropsDir(root, house_keys[(j + 1) \div 2]))
        ELSE Event("load_house_texture_embeddings",
                   EmbeddingsFile(root, house_keys[j \div 2]))]
SaveCalls(root) ==
    [j \in 1..(2 * Len(house_keys)) |->
        IF j % 2 = 1 THEN Event("save_house_crops", CropsDir(root, house_keys[(j + 1) \div 2]))
        ELSE Event("save_house_texture_embeddings",
                   EmbeddingsFile(root, house_keys[j \div 2]))]

\* Every path the run has created or written.
Written ==
    UNION {trace[j].arg : j \in {l \in 1..Len(trace) : trace[l].op = "makedirs"}}
    \cup {trace[j].arg : j \in {l \in 1..Len(trace) : IsSave(trace[l])}}

(***************************************************************************)
(* C1.  With both graph-generator flags set the run fails at the assertion *)
(* before any inference: it never gets past the assertion, no batch is     *)
(* predicted or merged, clear_predictions is not called and texture        *)
(* synthesis is not invoked, whatever the houses and the keep flag.        *)
(***************************************************************************)
C1_ConflictingFlagsFailBeforeInference ==
    BothFlags =>
        /\ ~PastAssert
        /\ ~Called("predict")
        /\ ~Called("update_embeddings")
        /\ ~Called("clear_predictions")
        /\ ~Called("fill_textures")

C1_Witness ==
    /\ BothFlags
    /\ pc = "failed"
    /\ failure = "assertion"
    /\ Len(house_keys) = MaxHouses

(***************************************************************************)
(* C2.  Without keep_existing_predictions, clear_predictions has been      *)
(* called over all houses before the first batch is predicted, and no      *)
(* predict or update_embeddings step starts in a state where a surface     *)
(* still holds the embedding it had before the run.                        *)
(***************************************************************************)
C2_ClearedBeforePropagation ==
    ~keep_existing_predictions =>
        /\ (AtPredict \/ AtUpdate) =>
               /\ Count("clear_predictions") = 1
               /\ trace[First("clear_predictions")].arg = Range(house_keys)
               /\ \A ks \in HouseSurfaces : houses[ks[1]][ks[2]].emb.src # "input"
        /\ Called("predict") => First("clear_predictions") < First("predict")

C2_Witness ==
    /\ ~keep_existing_predictions
    /\ AtUpdate
    /\ i = 0
    /\ \E k \in DOMAIN disk : \E s \in Surfaces : disk[k][s].emb = InputEmb

(***************************************************************************)
(* C3.  With keep_existing_predictions, a surface that holds an embedding  *)
(* before the run holds the same embedding throughout process() and after  *)
(* the run; and at every step of the batch loop a surface's embedding is   *)
(* overwritten only if the flag is false or the surface has no embedding.  *)
(***************************************************************************)
C3_KeptState ==
    (keep_existing_predictions /\ (InProcess \/ Returned)) =>
        \A ks \in HouseSurfaces :
            disk[ks[1]][ks[2]].emb # NoEmb =>
                houses[ks[1]][ks[2]].emb = disk[ks[1]][ks[2]].emb

C3_OverwriteStep ==
    AtUpdate =>
        \A ks \in HouseSurfaces :
            houses'[ks[1]][ks[2]].emb # houses[ks[1]][ks[2]].emb =>
                (~keep_existing_predictions \/ houses[ks[1]][ks[2]].emb = NoEmb)

\* C3: kept embeddings stay in every state, and every overwriting step is allowed.
C3_ExistingEmbeddingsKept == [](C3_KeptState) /\ [][C3_OverwriteStep]_vars

C3_Witness ==
    /\ keep_existing_predictions
    /\ pc = "done"
    /\ \E k \in DOMAIN houses : \E s, t \in Surfaces :
           /\ disk[k][s].emb = InputEmb
           /\ houses[k][s].emb = InputEmb
           /\ disk[k][t].emb = NoEmb
           /\ houses[k][t].emb.src = "prop"

(***************************************************************************)
(* C4.  End to end with default flags: the run comes to an end, and when   *)
(* it ends without an error every surface that lacked a crop before the    *)
(* run has an embedding and a texture crop.                                *)
(***************************************************************************)
C4_Filled ==
    (DefaultFlags /\ pc = "done") =>
        \A ks \in HouseSurfaces :
            disk[ks[1]][ks[2]].crop = NoCrop =>
                /\ houses[ks[1]][ks[2]].emb # NoEmb
                /\ houses[ks[1]][ks[2]].crop # NoCrop

\* C4: a default-flag run ends, and ends normally only with the surfaces filled.
C4_EndToEnd ==
    /\ [](C4_Filled)
    /\ (DefaultFlags => <>(pc \in {"done", "failed"}))

C4_Witness ==
    /\ DefaultFlags
    /\ pc = "done"
    /\ \E k \in DOMAIN houses : \E s \in Surfaces :
           /\ disk[k][s] = EmptySurface
           /\ houses[k][s].emb.src = "prop"
           /\ houses[k][s].crop = GnnPropCrop

(***************************************************************************)
(* C5 as stated.  The policy process() selected is told apart from each    *)
(* of the other two policies by its include-target setting.                *)
(***************************************************************************)
C5_PoliciesDifferByIncludeTarget ==
    nt_graph_generator # NoGenerator =>
        \A t, v \in BOOLEAN :
            (~(t /\ v) /\ GraphGeneratorFor(t, v).kind # nt_graph_generator.kind) =>
                GraphGeneratorFor(t, v).include_target # nt_graph_generator.include_target

(***************************************************************************)
(* C5 amended.  With the flags mutually exclusive, the train flag selects  *)
(* the train policy, the validation flag the validation policy and neither *)
(* the inference policy; every selected policy withholds the ground-truth  *)
(* targets, so the policies differ by generator, not by include-target.    *)
(***************************************************************************)
C5_SelectionWithholdsTargets ==
    nt_graph_generator # NoGenerator =>
        /\ ~BothFlags
        /\ use_train_graph_generator => nt_graph_generator.kind = "train"
        /\ use_val_graph_generator => nt_graph_generator.kind = "val"
        /\ (~use_train_graph_generator /\ ~use_val_graph_generator) =>
               nt_graph_generator.kind = "inference"
        /\ nt_graph_generator.include_target = FALSE

C5_Witness ==
    /\ nt_graph_generator.kind = "train"
    /\ use_train_graph_generator
    /\ pc = "done"

(***************************************************************************)
(* C6.  fill_textures is invoked at most once, exactly once in a run of    *)
(* process() that returns, over all houses, after every batch of the       *)
(* loader was predicted and merged; it is told to skip existing textures   *)
(* exactly when keep_existing_predictions is set; and once it was invoked  *)
(* no embedding changes any more.                                          *)
(***************************************************************************)
C6_SynthesisOnce ==
    /\ Count("fill_textures") <= 1
    /\ Returned => Count("fill_textures") = 1
    /\ Called("fill_textures") =>
           LET f == First("fill_textures")
           IN /\ SelectSeq(SubSeq(trace, 1, f - 1), IsPropagation)
                     = PropagationCalls(Len(val_nt_dataloader))
              /\ UNION {Range(val_nt_dataloader[b]) : b \in 1..Len(val_nt_dataloader)}
                     = Range(house_keys)
              /\ trace[f].arg.houses = Range(house_keys)
              /\ trace[f].arg.skip_existing_textures = keep_existing_predictions
              /\ \A ks \in HouseSurfaces :
                     LET before == disk[ks[1]][ks[2]]
                         after == houses[ks[1]][ks[2]]
                     IN /\ (keep_existing_predictions /\ before.crop # NoCrop) =>
                               after.crop = before.crop
                        /\ ~keep_existing_predictions => after.crop = GnnPropCrop

C6_EmbeddingsFinal ==
    Called("fill_textures") =>
        /\ \A ks \in HouseSurfaces :
               houses'[ks[1]][ks[2]].emb = houses[ks[1]][ks[2]].emb
        /\ SelectSeq(trace', IsPropagation) = SelectSeq(trace, IsPropagation)

\* C6: one synthesis call after the whole pass, and no embedding changes after it.
C6_SynthesisAfterPropagation == [](C6_SynthesisOnce) /\ [][C6_EmbeddingsFinal]_vars

C6_Witness ==
    /\ pc = "done"
    /\ Len(val_nt_dataloader) = MaxHouses
    /\ Count("fill_textures") = 1
    /\ keep_existing_predictions
    /\ \E k \in DOMAIN houses : \E s, t \in Surfaces :
           /\ disk[k][s].crop = InputCrop
           /\ houses[k][s].crop = InputCrop
           /\ houses[k][t].crop = GnnPropCrop

(***************************************************************************)
(* C7.  A checkpoint load failure, malformed house data or conflicting     *)
(* flags abort the run: once the error is raised the script is over, no    *)
(* later step runs (no retry, no recovery), and no house's crops or        *)
(* embeddings have been or will be saved.                                  *)
(***************************************************************************)
C7_AbortedState ==
    /\ failure # "none" =>
           /\ pc = "failed"
           /\ ~Called("save_house_crops")
           /\ ~Called("save_house_texture_embeddings")
    /\ pc = "failed" => failure \in {"tg_checkpoint", "tp_checkpoint",
                                      "malformed_house", "assertion"}
    /\ BothFlags => pc # "done" /\ ~Called("save_house_crops")

C7_NoStepAfterFailure == failure # "none" => UNCHANGED vars

\* C7: an error ends the run for good, before anything is saved.
C7_FailureAborts == [](C7_AbortedState) /\ [][C7_NoStepAfterFailure]_vars

C7_Witness ==
    /\ pc = "failed"
    /\ failure = "tp_checkpoint"
    /\ Len(house_keys) = MaxHouses
    /\ ~BothFlags

(***************************************************************************)
(* C8.  The propagation pass handles the loader's batches one at a time in *)
(* emission order: the calls are predict(0), update(0), predict(1),        *)
(* update(1), ... with no batch skipped or repeated, each prediction is    *)
(* merged into the houses of its own batch under the run's keep flag       *)
(* before the next batch is predicted, and the pass is over after the last *)
(* batch.                                                                  *)
(***************************************************************************)
C8_BatchesInOrder ==
    LET calls == SelectSeq(trace, IsPropagation)
        n == Len(val_nt_dataloader)
    IN /\ IsPrefix(calls, PropagationCalls(n))
       /\ AtPredict => Len(calls) = 2 * i
       /\ AtUpdate => Len(calls) = 2 * i + 1 /\ output = predict(i)
       /\ Returned => calls = PropagationCalls(n)
       /\ (pc = "loop" \/ Returned) =>
              \A b \in 1..(Len(calls) \div 2) :
                  \A k \in Range(val_nt_dataloader[b]) : \A s \in Surfaces :
                      houses[k][s].emb =
                          IF keep_existing_predictions /\ disk[k][s].emb # NoEmb
                          THEN disk[k][s].emb
                          ELSE PropEmb(b - 1)

C8_Witness ==
    /\ pc = "done"
    /\ Len(val_nt_dataloader) = MaxHouses
    /\ keep_existing_predictions
    /\ \E k \in DOMAIN houses : \E s \in Surfaces : houses[k][s].emb = PropEmb(MaxHouses - 1)

(***************************************************************************)
(* C9 as stated.  Load, process, save happen in that order: every parsed   *)
(* house is loaded from the input root before process() starts, after it   *)
(* returns every parsed house is saved once to texture_crops/<key> and     *)
(* surface_texture_embeddings/<key>.json under the output root, and        *)
(* nothing is written under the input root.                                *)
(***************************************************************************)
\* The part of C9 both statements share: load, then process, then save.
C9_PhaseOrder ==
    /\ IsPrefix(SelectSeq(trace, IsLoad), LoadCalls(input_path))
    /\ IsPrefix(SelectSeq(trace, IsSave), SaveCalls(output_path))
    /\ Count("process") <= 1
    /\ Called("process") =>
           /\ SelectSeq(SubSeq(trace, 1, First("process")), IsLoad) = LoadCalls(input_path)
           /\ trace[First("process")].arg = Range(house_keys)
    /\ \A j \in 1..Len(trace) :
           IsSave(trace[j]) =>
               /\ Called("fill_textures")
               /\ First("process") < First("fill_textures")
               /\ First("fill_textures") < j
    /\ pc = "done" => SelectSeq(trace, IsSave) = SaveCalls(output_path)
    /\ \A p \in Written : Under(p, output_path)

C10_SelectionLeavesHouses ==
    /\ pc \in {"tg_predictor", "tp_predictor", "assert", "select", "dataset",
               "keep_check"} => houses = disk
    /\ keep_existing_predictions =>
           /\ ~Called("clear_predictions")
           /\ ((AtPredict \/ AtUpdate) /\ i = 0) => houses = disk

C10_Witness ==
    /\ keep_existing_predictions
    /\ AtUpdate
    /\ i = 0
    /\ \E k \in DOMAIN houses : \E s \in Surfaces : houses[k][s].emb = InputEmb
====
